---- MODULE Spec2Model ----
(***************************************************************************)
(* Model of the Immortal Stack webhook server: the GitHub webhook route    *)
(* (routes/github.js), the GitHub event handler (handlers/githubHandler.js)*)
(* the token middleware (middleware/auth.js) and the MAKE.com route        *)
(* (routes/webhooks.js).  One behaviour follows one inbound request from   *)
(* its arrival to the end of its processing, under one configuration of    *)
(* the process environment.  Strings the code inspects character by        *)
(* character (commit messages, label names, signatures, the signing        *)
(* secret) are sequences of one-character strings.                         *)
(***************************************************************************)
EXTENDS Integers, Sequences, FiniteSets, TLC

VARIABLES env, req, pc, res, result, idx, tasks, outcomes, outbound,
          handlerCalls, mongoLogs, nextCalls, verified

vars == <<env, req, pc, res, result, idx, tasks, outcomes, outbound,
          handlerCalls, mongoLogs, nextCalls, verified>>

\* Bounds of the model.
MaxCommits == 2
MaxLabels == 2
DigestLen == 2

----------------------------------------------------------------------------
\* Character data

RECURSIVE Pow16(_)
Pow16(n) == IF n = 0 THEN 1 ELSE 16 * Pow16(n - 1)

HexDigits == <<"0","1","2","3","4","5","6","7","8","9","a","b","c","d","e","f">>

SeqsUpTo(S, n) == UNION { [1..k -> S] : k \in 0..n }

\* String.prototype.toLowerCase, on the characters the inputs use.
LowerChar(c) ==
  CASE c = "T" -> "t" [] c = "O" -> "o" [] c = "D" -> "d"
    [] c = "S" -> "s" [] c = "I" -> "i" [] OTHER -> c

ToLowerCase(s) == [k \in 1..Len(s) |-> LowerChar(s[k])]

\* String.prototype.includes
Includes(s, sub) ==
  \E k \in 0..(Len(s) - Len(sub)) :
     \A j \in 1..Len(sub) : s[k + j] = sub[j]

StrTodo == <<"t","o","d","o">>
StrStack == <<"s","t","a","c","k">>
StrImmortalStack == <<"i","m","m","o","r","t","a","l","-","s","t","a","c","k">>

----------------------------------------------------------------------------
\* Inputs: the commit messages, label names and payloads requests carry.

MsgTodoFix == <<"t","o","d","o",":","x">>
MsgMixedTodo == <<"a"," ","T","o","D","o">>
MsgFix == <<"f","i","x">>
MsgTod == <<"t","o","d"," ","o">>
Messages == {MsgTodoFix, MsgMixedTodo, MsgFix, MsgTod}

LblStack == StrStack
LblMixedImmortal == <<"I","m","m","o","r","t","a","l","-","S","t","a","c","k">>
LblBug == <<"b","u","g">>
LblStacks == <<"s","t","a","c","k","s">>
LabelNames == {LblStack, LblMixedImmortal, LblBug, LblStacks}

Repos == {"alpha", "beta"}
Actions == {"opened", "reopened", "closed"}
BaseRefs == {"main", "master", "develop"}

Repository(r) == [name |-> r]

\* A body-parser result with no fields: {}.
EmptyBody == [k \in {} |-> k]

PushBodies ==
  { [ref |-> "refs/heads/main", repository |-> Repository(r),
     commits |-> [k \in 1..Len(ms) |-> [id |-> k, message |-> ms[k]]]] :
       r \in Repos, ms \in SeqsUpTo(Messages, MaxCommits) }

PullRequestBodies ==
  { [action |-> a, repository |-> Repository(r),
     pull_request |-> [number |-> 7, base |-> [ref |-> b]]] :
       a \in Actions, r \in Repos, b \in BaseRefs }

IssuesBodies ==
  { [action |-> a, repository |-> Repository(r),
     issue |-> [number |-> 9,
                labels |-> [k \in 1..Len(ls) |-> [name |-> ls[k]]]]] :
       a \in Actions, r \in Repos, ls \in SeqsUpTo(LabelNames, MaxLabels) }

PingBody == [zen |-> "z"]

GithubEvents ==
       { <<"push", b>> : b \in PushBodies }
  \cup { <<"pull_request", b>> : b \in PullRequestBodies }
  \cup { <<"issues", b>> : b \in IssuesBodies }
  \cup { <<"ping", PingBody>> }
  \cup { <<e, EmptyBody>> : e \in {"push", "pull_request", "issues", "ping"} }

----------------------------------------------------------------------------
\* routes/github.js: signature verification

\* Characters and field values a serialized body or a secret can hold,
\* numbered for the digest computation.
Alphabet ==
  <<"{", "}", ",", "t","o","d",":","x","a"," ","T","D","f","i",
    "s","c","k","I","m","r","l","-","S","b","u","g","1",
    "refs/heads/main", "alpha", "beta", "opened", "reopened", "closed",
    "main", "master", "develop", "z">>

Code(t) ==
  IF \E k \in 1..Len(Alphabet) : Alphabet[k] = t
    THEN CHOOSE k \in 1..Len(Alphabet) : Alphabet[k] = t
    ELSE 0

RECURSIVE JoinNames(_, _)
JoinNames(items, k) ==
  IF k > Len(items) THEN <<>>
  ELSE <<",">> \o items[k] \o JoinNames(items, k + 1)

\* JSON.stringify(req.body): the body's field values in field order.
JSONstringify(b) ==
  IF "commits" \in DOMAIN b
    THEN <<"{", b.ref, b.repository.name>>
           \o JoinNames([k \in 1..Len(b.commits) |-> b.commits[k].message], 1)
           \o <<"}">>
  ELSE IF "pull_request" \in DOMAIN b
    THEN <<"{", b.action, b.repository.name, b.pull_request.base.ref, "}">>
  ELSE IF "issue" \in DOMAIN b
    THEN <<"{", b.action, b.repository.name>>
           \o JoinNames([k \in 1..Len(b.issue.labels) |-> b.issue.labels[k].name], 1)
           \o <<"}">>
  ELSE IF "zen" \in DOMAIN b THEN <<"{", b.zen, "}">>
  ELSE <<"{", "}">>

RECURSIVE HashFold(_, _, _)
HashFold(h, s, k) ==
  IF k > Len(s) THEN h
  ELSE HashFold((h * 7 + Code(s[k])) % Pow16(DigestLen), s, k + 1)

\* hmac.update(payload).digest('hex'): a keyed digest of fixed length
\* DigestLen, written in lowercase hexadecimal.
HmacHex(secret, payload) ==
  LET h == HashFold(HashFold(0, secret, 1), payload, 1)
  IN  [k \in 1..DigestLen |-> HexDigits[((h \div Pow16(DigestLen - k)) % 16) + 1]]

Sha256Prefix == <<"s","h","a","2","5","6","=">>

ComputedDigest(secret, body) == Sha256Prefix \o HmacHex(secret, JSONstringify(body))

\* crypto.timingSafeEqual on two buffers: a RangeError when the byte
\* lengths differ, else whether the contents are equal.
TimingSafeEqual(a, b) ==
  IF Len(a) # Len(b) THEN "throw"
  ELSE IF a = b THEN "true" ELSE "false"

\* verifyGithubSignature(req) under secret configuration e:
\* "true", "false", or "throw" when the call raises.
VerifyGithubSignature(e, r) ==
  IF "GITHUB_WEBHOOK_SECRET" \notin DOMAIN e \/ e["GITHUB_WEBHOOK_SECRET"] = <<>>
    THEN "true"
  ELSE IF "x-hub-signature-256" \notin DOMAIN r.headers
          \/ r.headers["x-hub-signature-256"] = <<>>
    THEN "false"
  ELSE TimingSafeEqual(r.headers["x-hub-signature-256"],
                       ComputedDigest(e["GITHUB_WEBHOOK_SECRET"], r.body))

----------------------------------------------------------------------------
\* Configuration (process.env) and requests

NoEnv == [k \in {} |-> k]
SecretK == <<"k","1">>

GithubSecretEnvs ==
  { NoEnv, "GITHUB_WEBHOOK_SECRET" :> <<>>, "GITHUB_WEBHOOK_SECRET" :> SecretK }

TokenEnvs ==
  { NoEnv, "CLICKUP_API_TOKEN" :> "", "CLICKUP_API_TOKEN" :> "pk_token" }

ListKeys ==
  {"CLICKUP_DEV_BACKLOG_LIST_ID", "CLICKUP_CODE_REVIEWS_LIST_ID", "CLICKUP_TODO_LIST_ID"}

ListIdOf(key) ==
  CASE key = "CLICKUP_DEV_BACKLOG_LIST_ID" -> "list-backlog"
    [] key = "CLICKUP_CODE_REVIEWS_LIST_ID" -> "list-reviews"
    [] key = "CLICKUP_TODO_LIST_ID" -> "list-todo"

ListEnvs == { [k \in S |-> ListIdOf(k)] : S \in SUBSET ListKeys }

MakeSecretEnvs ==
  { NoEnv, "MAKE_WEBHOOK_SECRET" :> "", "MAKE_WEBHOOK_SECRET" :> "s3cret" }

\* The signature headers a sender can attach to a body: none, an empty
\* one, the digest under SecretK, that digest with its last character
\* changed, with its last character dropped, and with one character added.
DropLast(s) == SubSeq(s, 1, Len(s) - 1)

FlipLast(s) == DropLast(s) \o << IF s[Len(s)] = "0" THEN "1" ELSE "0" >>

SignatureHeaders(body) ==
  LET d == ComputedDigest(SecretK, body)
  IN  { NoEnv } \cup
      { "x-hub-signature-256" :> v : v \in { <<>>, d, FlipLast(d), DropLast(d), d \o <<"0">> } }

GithubRequest(ev, sh) ==
  [endpoint |-> "github",
   headers |-> ("x-github-event" :> ev[1]) @@ ("x-github-delivery" :> "d-1") @@ sh,
   params |-> NoEnv,
   body |-> ev[2]]

ScenarioIds ==
  {"memory-harvest", "discord-log", "clickup-sync", "notion-update", "unknown-scenario"}

TokenHeaders ==
  { NoEnv } \cup { "x-webhook-token" :> v : v \in {"", "s3cret", "wrong"} }

MakeRequests ==
  { [endpoint |-> "make", headers |-> th, params |-> [scenarioId |-> sc],
     body |-> EmptyBody] : th \in TokenHeaders, sc \in ScenarioIds }

NoResponse == [sent |-> FALSE, status |-> 0, body |-> NoEnv]
NoResult == [status |-> "none", message |-> "none"]

Init ==
  /\ \/ \E ge \in GithubSecretEnvs, te \in TokenEnvs, le \in ListEnvs :
          /\ env = ge @@ te @@ le @@ ("MAKE_WEBHOOK_SECRET" :> "s3cret")
          /\ \E ev \in GithubEvents : \E sh \in SignatureHeaders(ev[2]) :
                req = GithubRequest(ev, sh)
     \/ \E me \in MakeSecretEnvs :
          /\ env = me @@ ("CLICKUP_API_TOKEN" :> "pk_token")
          /\ req \in MakeRequests
  /\ pc = "start"
  /\ res = NoResponse
  /\ result = NoResult
  /\ idx = 0
  /\ tasks = <<>>
  /\ outcomes = <<>>
  /\ outbound = <<>>
  /\ handlerCalls = <<>>
  /\ mongoLogs = 0
  /\ nextCalls = 0
  /\ verified = "none"

----------------------------------------------------------------------------
\* handlers/githubHandler.js

\* A property read that may find the field absent (undefined).
FieldOr(b, f, dflt) == IF f \in DOMAIN b THEN b[f] ELSE dflt

\* CLICKUP_LISTS.<key>, as the listId field of a task: absent when the
\* environment variable is not set.
ListField(e, key) == IF key \in DOMAIN e THEN "listId" :> e[key] ELSE NoEnv

\* Variant of CommitHasTodo that compares without lowering the case.
CommitHasTodo_CaseSensitive(commit) == Includes(commit.message, StrTodo)

\* commit.message.toLowerCase().includes('todo')
CommitHasTodo(commit) == Includes(ToLowerCase(commit.message), StrTodo)

\* message.split('\n')[0]
FirstLine(s) ==
  IF \E k \in 1..Len(s) : s[k] = "\n"
    THEN SubSeq(s, 1, (CHOOSE k \in 1..Len(s) :
                         s[k] = "\n" /\ \A j \in 1..(k - 1) : s[j] # "\n") - 1)
    ELSE s

\* The task handlePushEvent builds for one commit.
PushTask(e, data, commit) ==
  [name |-> <<"TODO from commit: ", FirstLine(commit.message)>>,
   description |-> <<data.repository.name, commit.id>>,
   tags |-> <<"github", "todo", "commit">>]
  @@ ListField(e, "CLICKUP_TODO_LIST_ID")

\* Variant of PullRequestTracked that tracks the main branch only.
PullRequestTracked_MainOnly(action, baseRef) ==
  /\ ~(action # "opened" /\ action # "reopened")
  /\ baseRef = "main"

\* The two early returns of handlePullRequestEvent.
PullRequestTracked(action, baseRef) ==
  /\ ~(action # "opened" /\ action # "reopened")
  /\ ~(baseRef # "main" /\ baseRef # "master")

PullRequestTask(e, data) ==
  [name |-> <<"Review PR #", data.pull_request.number>>,
   description |-> <<data.repository.name, data.pull_request.number>>,
   tags |-> <<"github", "pull-request", data.repository.name>>]
  @@ ListField(e, "CLICKUP_CODE_REVIEWS_LIST_ID")

\* Variant of HasStackLabel that compares without lowering the case.
HasStackLabel_CaseSensitive(labels) ==
  \E k \in 1..Len(labels) :
     \/ labels[k].name = StrStack
     \/ labels[k].name = StrImmortalStack

\* issue.labels.some(label => lowercased name is 'stack' or 'immortal-stack')
HasStackLabel(labels) ==
  \E k \in 1..Len(labels) :
     \/ ToLowerCase(labels[k].name) = StrStack
     \/ ToLowerCase(labels[k].name) = StrImmortalStack

\* The two early returns of handleIssuesEvent.
IssueTracked(action, labels) ==
  /\ ~(action # "opened" /\ action # "reopened")
  /\ HasStackLabel(labels)

IssueTask(e, data) ==
  [name |-> <<"GitHub Issue #", data.issue.number>>,
   description |-> <<data.repository.name, data.issue.number,
                     [k \in 1..Len(data.issue.labels) |-> data.issue.labels[k].name]>>,
   tags |-> <<"github", "issue", data.repository.name>>]
  @@ ListField(e, "CLICKUP_DEV_BACKLOG_LIST_ID")

\* Variant of CreateClickUpTask without the early return on a missing list.
CreateClickUpTask_NoListCheck(e, task, apiOk) ==
  IF "CLICKUP_API_TOKEN" \notin DOMAIN e \/ e["CLICKUP_API_TOKEN"] = "" THEN "noop"
  ELSE IF apiOk THEN "created" ELSE "throw"

\* createClickUpTask: "noop" for the two early returns, "created" when the
\* POST succeeds, "throw" when it fails and the error is rethrown.
CreateClickUpTask(e, task, apiOk) ==
  IF "CLICKUP_API_TOKEN" \notin DOMAIN e \/ e["CLICKUP_API_TOKEN"] = "" THEN "noop"
  ELSE IF "listId" \notin DOMAIN task \/ task.listId = "" THEN "noop"
  ELSE IF apiOk THEN "created" ELSE "throw"

\* The request axios.post sends for a task.
AxiosPost(e, task) ==
  [url |-> <<"https://api.clickup.com/api/v2", "/list/",
             FieldOr(task, "listId", "undefined"), "/task">>,
   authorization |-> FieldOr(e, "CLICKUP_API_TOKEN", "undefined"),
   data |-> [name |-> task.name, description |-> task.description, tags |-> task.tags]]

\* The value processGithubEvent returns from its catch block.
ErrorResult == [status |-> "error", message |-> "Error processing GitHub event"]
SuccessResult == [status |-> "success", message |-> "GitHub event processed successfully"]

\* await createClickUpTask(task) inside a handler: on a throw control goes
\* to the catch block of processGithubEvent, else on to pcNext.
AwaitCreateTask(task, apiOk, pcNext, idxNext) ==
  LET o == CreateClickUpTask(env, task, apiOk)
  IN  /\ tasks' = Append(tasks, task)
      /\ outcomes' = Append(outcomes, o)
      /\ outbound' = IF o = "noop" THEN outbound ELSE Append(outbound, AxiosPost(env, task))
      /\ IF o = "throw"
           THEN pc' = "respond" /\ result' = ErrorResult /\ idx' = idx
           ELSE pc' = pcNext /\ result' = result /\ idx' = idxNext

\* The switch of processGithubEvent: the handler called for an event type.
GithubHandlerFor(eventType) ==
  CASE eventType = "push" -> "handlePushEvent"
    [] eventType = "pull_request" -> "handlePullRequestEvent"
    [] eventType = "issues" -> "handleIssuesEvent"
    [] OTHER -> "none"

\* Variant of ProcessGithubEvent whose default branch returns the success
\* value at once, without the logging step.
ProcessGithubEvent_DefaultSkipsLog ==
  /\ pc = "process"
  /\ LET h == GithubHandlerFor(req.headers["x-github-event"])
     IN  /\ handlerCalls' = IF h = "none" THEN handlerCalls ELSE Append(handlerCalls, h)
         /\ pc' = IF h = "none" THEN "respond" ELSE h
         /\ result' = IF h = "none" THEN SuccessResult ELSE result
  /\ UNCHANGED <<env, req, res, idx, tasks, outcomes, outbound,
                 mongoLogs, nextCalls, verified>>

ProcessGithubEvent ==
  /\ pc = "process"
  /\ LET h == GithubHandlerFor(req.headers["x-github-event"])
     IN  /\ handlerCalls' = IF h = "none" THEN handlerCalls ELSE Append(handlerCalls, h)
         /\ pc' = IF h = "none" THEN "log" ELSE h
  /\ UNCHANGED <<env, req, res, result, idx, tasks, outcomes, outbound,
                 mongoLogs, nextCalls, verified>>

\* handlePushEvent up to its loop: reading ref.replace on an absent ref
\* raises a TypeError.
HandlePushEvent ==
  /\ pc = "handlePushEvent"
  /\ IF "ref" \notin DOMAIN req.body
       THEN pc' = "respond" /\ result' = ErrorResult /\ idx' = idx
       ELSE pc' = "pushLoop" /\ result' = result /\ idx' = 1
  /\ UNCHANGED <<env, req, res, tasks, outcomes, outbound, handlerCalls,
                 mongoLogs, nextCalls, verified>>

\* One iteration of the for..of loop of handlePushEvent.
PushLoop ==
  /\ pc = "pushLoop"
  /\ IF idx > Len(req.body.commits)
       THEN /\ pc' = "log"
            /\ UNCHANGED <<result, idx, tasks, outcomes, outbound>>
       ELSE IF CommitHasTodo(req.body.commits[idx])
         THEN \E apiOk \in BOOLEAN :
                AwaitCreateTask(PushTask(env, req.body, req.body.commits[idx]),
                                apiOk, "pushLoop", idx + 1)
         ELSE /\ idx' = idx + 1
              /\ UNCHANGED <<pc, result, tasks, outcomes, outbound>>
  /\ UNCHANGED <<env, req, res, handlerCalls, mongoLogs, nextCalls, verified>>

HandlePullRequestEvent ==
  /\ pc = "handlePullRequestEvent"
  /\ LET action == FieldOr(req.body, "action", "undefined")
     IN  IF action # "opened" /\ action # "reopened"
           THEN /\ pc' = "log"
                /\ UNCHANGED <<result, idx, tasks, outcomes, outbound>>
         ELSE IF ~PullRequestTracked(action, req.body.pull_request.base.ref)
           THEN /\ pc' = "log"
                /\ UNCHANGED <<result, idx, tasks, outcomes, outbound>>
         ELSE \E apiOk \in BOOLEAN :
                AwaitCreateTask(PullRequestTask(env, req.body), apiOk, "log", idx)
  /\ UNCHANGED <<env, req, res, handlerCalls, mongoLogs, nextCalls, verified>>

HandleIssuesEvent ==
  /\ pc = "handleIssuesEvent"
  /\ LET action == FieldOr(req.body, "action", "undefined")
     IN  IF action # "opened" /\ action # "reopened"
           THEN /\ pc' = "log"
                /\ UNCHANGED <<result, idx, tasks, outcomes, outbound>>
         ELSE IF ~IssueTracked(action, req.body.issue.labels)
           THEN /\ pc' = "log"
                /\ UNCHANGED <<result, idx, tasks, outcomes, outbound>>
         ELSE \E apiOk \in BOOLEAN :
                AwaitCreateTask(IssueTask(env, req.body), apiOk, "log", idx)
  /\ UNCHANGED <<env, req, res, handlerCalls, mongoLogs, nextCalls, verified>>

\* await logEventToMongoDB(data, eventType), then the success return.
LogEventToMongoDB ==
  /\ pc = "log"
  /\ mongoLogs' = mongoLogs + 1
  /\ result' = SuccessResult
  /\ pc' = "respond"
  /\ UNCHANGED <<env, req, res, idx, tasks, outcomes, outbound, handlerCalls,
                 nextCalls, verified>>

----------------------------------------------------------------------------
\* routes/github.js: POST /api/github/webhook

Json(status, body) == [sent |-> TRUE, status |-> status, body |-> body]

\* What becomes of a request whose async route callback rejects before
\* it answered: Express 4 drops the rejection and the request is never
\* answered; Express 5 passes it to the error middleware of server.js.
RejectedRouteResponses ==
  { NoResponse,
    Json(500, [status |-> "error", message |-> "An internal server error occurred"]) }

\* The route callback up to its first await.
GithubWebhook ==
  /\ pc = "start"
  /\ req.endpoint = "github"
  /\ LET v == VerifyGithubSignature(env, req)
     IN  /\ verified' = v
         /\ CASE v = "true" -> pc' = "process" /\ res' = res
              [] v = "false" ->
                   /\ pc' = "done"
                   /\ res' = Json(401, [status |-> "error", message |-> "Invalid signature"])
              [] v = "throw" ->
                   /\ pc' = "done"
                   /\ res' \in RejectedRouteResponses
  /\ UNCHANGED <<env, req, result, idx, tasks, outcomes, outbound, handlerCalls,
                 mongoLogs, nextCalls>>

\* The route callback after await processGithubEvent(...) returned.
GithubRespond ==
  /\ pc = "respond"
  /\ res' = Json(200, [status |-> result.status,
                       message |-> result.message,
                       eventType |-> req.headers["x-github-event"],
                       deliveryId |-> req.headers["x-github-delivery"],
                       timestamp |-> "now"])
  /\ pc' = "done"
  /\ UNCHANGED <<env, req, result, idx, tasks, outcomes, outbound, handlerCalls,
                 mongoLogs, nextCalls, verified>>

----------------------------------------------------------------------------
\* middleware/auth.js and routes/webhooks.js: POST /api/webhooks/make/:scenarioId

\* Variant of AuthenticateWebhook that compares only when a secret is set.
AuthenticateWebhook_NoSecretBypass(e, r) ==
  IF "x-webhook-token" \notin DOMAIN r.headers \/ r.headers["x-webhook-token"] = ""
    THEN "401"
  ELSE IF "MAKE_WEBHOOK_SECRET" \in DOMAIN e
          /\ r.headers["x-webhook-token"] # e["MAKE_WEBHOOK_SECRET"]
    THEN "403"
  ELSE "next"

\* authenticateWebhook: the status it answers with, or "next".
AuthenticateWebhook(e, r) ==
  IF "x-webhook-token" \notin DOMAIN r.headers \/ r.headers["x-webhook-token"] = ""
    THEN "401"
  ELSE IF "MAKE_WEBHOOK_SECRET" \notin DOMAIN e
          \/ r.headers["x-webhook-token"] # e["MAKE_WEBHOOK_SECRET"]
    THEN "403"
  ELSE "next"

MakeAuthenticate ==
  /\ pc = "start"
  /\ req.endpoint = "make"
  /\ LET a == AuthenticateWebhook(env, req)
     IN  /\ verified' = a
         /\ CASE a = "401" ->
                   /\ res' = Json(401, [status |-> "error", message |-> "Authentication token missing"])
                   /\ pc' = "done" /\ nextCalls' = nextCalls
              [] a = "403" ->
                   /\ res' = Json(403, [status |-> "error", message |-> "Invalid authentication token"])
                   /\ pc' = "done" /\ nextCalls' = nextCalls
              [] a = "next" ->
                   /\ res' = res
                   /\ pc' = "makeRoute" /\ nextCalls' = nextCalls + 1
  /\ UNCHANGED <<env, req, result, idx, tasks, outcomes, outbound, handlerCalls,
                 mongoLogs>>

\* Variant of ScenarioHandlerFor without the notion-update case.
ScenarioHandlerFor_MissingCase(scenarioId) ==
  CASE scenarioId = "memory-harvest" -> "processMemory"
    [] scenarioId = "discord-log" -> "processLog"
    [] scenarioId = "clickup-sync" -> "processSync"
    [] OTHER -> "none"

\* The switch of the route: the handler method called for a scenario.
ScenarioHandlerFor(scenarioId) ==
  CASE scenarioId = "memory-harvest" -> "processMemory"
    [] scenarioId = "discord-log" -> "processLog"
    [] scenarioId = "clickup-sync" -> "processSync"
    [] scenarioId = "notion-update" -> "processUpdate"
    [] OTHER -> "none"

\* The body the route answers with after the switch, and from its catch.
MakeSuccessBody(scenarioId) ==
  [status |-> "success", message |-> "Webhook received successfully",
   scenarioId |-> scenarioId, timestamp |-> "now"]

MakeErrorBody(scenarioId) ==
  [status |-> "error", message |-> "Webhook received but processing failed"]

\* The route callback; the handler it calls returns or throws.
MakeRoute ==
  /\ pc = "makeRoute"
  /\ LET sc == req.params.scenarioId
         h == ScenarioHandlerFor(sc)
     IN  \E throws \in BOOLEAN :
           /\ throws => h # "none"
           /\ handlerCalls' = IF h = "none" THEN handlerCalls ELSE Append(handlerCalls, h)
           /\ res' = IF throws THEN Json(200, MakeErrorBody(sc))
                               ELSE Json(200, MakeSuccessBody(sc))
           /\ result' = IF throws THEN [status |-> "error", message |-> "thrown"]
                                  ELSE result
  /\ pc' = "done"
  /\ UNCHANGED <<env, req, idx, tasks, outcomes, outbound, mongoLogs, nextCalls,
                 verified>>

----------------------------------------------------------------------------

Next ==
  \/ GithubWebhook
  \/ ProcessGithubEvent
  \/ HandlePushEvent
  \/ PushLoop
  \/ HandlePullRequestEvent
  \/ HandleIssuesEvent
  \/ LogEventToMongoDB
  \/ GithubRespond
  \/ MakeAuthenticate
  \/ MakeRoute

Spec == Init /\ [][Next]_vars

TypeOK ==
  /\ pc \in {"start", "process", "handlePushEvent", "pushLoop",
             "handlePullRequestEvent", "handleIssuesEvent", "log", "respond",
             "makeRoute", "done"}
  /\ res.sent \in BOOLEAN
  /\ mongoLogs \in 0..1
  /\ Len(tasks) = Len(outcomes)

----------------------------------------------------------------------------
\* Vocabulary of the properties

IsGithub == req.endpoint = "github"
IsMake == req.endpoint = "make"
EventType == req.headers["x-github-event"]

SecretConfigured ==
  "GITHUB_WEBHOOK_SECRET" \in DOMAIN env /\ env["GITHUB_WEBHOOK_SECRET"] # <<>>

\* The supplied signature is the digest of the body under the secret.
SignatureMatches ==
  /\ "x-hub-signature-256" \in DOMAIN req.headers
  /\ req.headers["x-hub-signature-256"]
       = Sha256Prefix \o HmacHex(env["GITHUB_WEBHOOK_SECRET"], JSONstringify(req.body))

SignatureAccepted == ~SecretConfigured \/ SignatureMatches

HandlerEnded == pc \in {"log", "respond", "done"}

IsPrefix(s, t) == Len(s) <= Len(t) /\ \A k \in 1..Len(s) : s[k] = t[k]

\* The handler of the event ended by raising.
HandlerFailed ==
  \/ \E k \in 1..Len(outcomes) : outcomes[k] = "throw"
  \/ /\ handlerCalls = <<"handlePushEvent">>
     /\ "ref" \notin DOMAIN req.body
     /\ pc \in {"respond", "done"}

\* The list a record is destined for is the configured list named key.
DestinedFor(task, key) ==
  IF key \in DOMAIN env
    THEN "listId" \in DOMAIN task /\ task.listId = env[key]
    ELSE "listId" \notin DOMAIN task

----------------------------------------------------------------------------
\* C1: every request to the GitHub webhook endpoint is answered, with 401
\* exactly when signature verification fails and with 200 otherwise; when
\* processing fails the 200 body has status "error" together with message,
\* eventType, deliveryId and timestamp; never a 5xx, never unanswered.
C1_GithubAlwaysAnswered ==
  (IsGithub /\ pc = "done") =>
     /\ res.sent
     /\ res.status \in {200, 401}
     /\ (res.status = 401) <=> ~SignatureAccepted
     /\ (res.status = 200 /\ HandlerFailed) =>
           /\ res.body.status = "error"
           /\ {"status", "message", "eventType", "deliveryId", "timestamp"}
                 \subseteq DOMAIN res.body

\* C2: verifyGithubSignature returns a boolean and never raises: true with
\* no secret configured, true when the signature is the computed digest,
\* false for every other signature, a missing one and one of another
\* length included.
C2_VerifyReturnsBoolean ==
  (IsGithub /\ pc # "start") =>
     /\ verified \in {"true", "false"}
     /\ (verified = "true") <=> SignatureAccepted

\* C3: a request that fails authentication or signature verification is
\* answered with a non-200 status, and no handler is invoked and no
\* outbound call is issued for it at any time.
C3_AuthFailureTerminal ==
  (pc # "start" /\ verified \notin {"true", "next"}) =>
     /\ handlerCalls = <<>>
     /\ tasks = <<>>
     /\ outbound = <<>>
     /\ pc = "done" => (res.sent /\ res.status # 200)

----------------------------------------------------------------------------
\* Token Authenticator

HasToken == "x-webhook-token" \in DOMAIN req.headers
Token == req.headers["x-webhook-token"]
TokenEqualsSecret ==
  HasToken /\ "MAKE_WEBHOOK_SECRET" \in DOMAIN env /\ Token = env["MAKE_WEBHOOK_SECRET"]

Answered(status) == pc = "done" /\ res.sent /\ res.status = status /\ nextCalls = 0

Proceeded ==
  /\ nextCalls = 1
  /\ pc = "makeRoute" => ~res.sent
  /\ res.status \notin {401, 403}

\* C4 as stated: a missing header yields 401, a header present but
\* different from the configured secret yields 403, a header equal to the
\* configured secret proceeds (next() once, no response by the
\* authenticator), for every configuration of the secret.
C4_TokenAuthAsStated ==
  (IsMake /\ pc # "start") =>
     /\ ~HasToken => Answered(401)
     /\ (HasToken /\ ~TokenEqualsSecret) => Answered(403)
     /\ TokenEqualsSecret => Proceeded

\* C4 amended: a missing or empty header yields 401, a non-empty header
\* different from the configured secret (or with no secret configured)
\* yields 403, and a non-empty header equal to the configured secret
\* proceeds: next() is called exactly once and the authenticator sends no
\* response.
C4_TokenAuth ==
  (IsMake /\ pc # "start") =>
     /\ (~HasToken \/ (HasToken /\ Token = "")) => Answered(401)
     /\ (HasToken /\ Token # "" /\ ~TokenEqualsSecret) => Answered(403)
     /\ (HasToken /\ Token # "" /\ TokenEqualsSecret) => Proceeded

C4_Witness ==
  /\ IsMake /\ pc = "done" /\ HasToken /\ Token = ""
  /\ "MAKE_WEBHOOK_SECRET" \in DOMAIN env /\ env["MAKE_WEBHOOK_SECRET"] = ""
  /\ res.status = 401

----------------------------------------------------------------------------
\* MAKE.com route

ExpectedScenarioCalls ==
  CASE req.params.scenarioId = "memory-harvest" -> <<"processMemory">>
    [] req.params.scenarioId = "discord-log" -> <<"processLog">>
    [] req.params.scenarioId = "clickup-sync" -> <<"processSync">>
    [] req.params.scenarioId = "notion-update" -> <<"processUpdate">>
    [] OTHER -> <<>>

ScenarioHandlerThrew == result.status = "error"

\* C5 as stated: every authenticated request is answered 200 with a body
\* carrying status, message, scenarioId and timestamp; a known scenario
\* has its handler invoked once, another identifier invokes none and is
\* acknowledged as a success, and a throwing handler gives status "error".
C5_MakeAckAsStated ==
  (IsMake /\ pc = "done" /\ nextCalls = 1) =>
     /\ res.sent /\ res.status = 200
     /\ {"status", "message", "scenarioId", "timestamp"} \subseteq DOMAIN res.body
     /\ handlerCalls = ExpectedScenarioCalls
     /\ res.body.status = IF ScenarioHandlerThrew THEN "error" ELSE "success"

\* C5 amended: every authenticated request is answered 200 with a body
\* carrying status and message; the body also carries scenarioId and
\* timestamp unless the invoked handler threw, in which case it has
\* status "error" and only status and message.  A known scenario has its
\* handler invoked once; another identifier invokes none and is
\* acknowledged as a success.
C5_MakeAck ==
  (IsMake /\ pc = "done" /\ nextCalls = 1) =>
     /\ res.sent /\ res.status = 200
     /\ handlerCalls = ExpectedScenarioCalls
     /\ IF ScenarioHandlerThrew
          THEN /\ res.body.status = "error"
               /\ DOMAIN res.body = {"status", "message"}
          ELSE /\ res.body.status = "success"
               /\ DOMAIN res.body = {"status", "message", "scenarioId", "timestamp"}
               /\ res.body.scenarioId = req.params.scenarioId

C5_Witness ==
  /\ IsMake /\ pc = "done" /\ nextCalls = 1
  /\ ScenarioHandlerThrew
  /\ handlerCalls = <<"processUpdate">>
  /\ res.status = 200

----------------------------------------------------------------------------
\* Push handler

IsPush == IsGithub /\ EventType = "push" /\ "commits" \in DOMAIN req.body

\* The ids of the commits whose message contains "todo" in any case,
\* in commit order.
TodoCommitIds ==
  LET matching == SelectSeq(req.body.commits,
                            LAMBDA c : c.message \in {MsgTodoFix, MsgMixedTodo})
  IN  [k \in 1..Len(matching) |-> matching[k].id]

TaskCommitIds == [k \in 1..Len(tasks) |-> tasks[k].description[2]]

PushTasksWellFormed ==
  \A k \in 1..Len(tasks) :
     /\ tasks[k].tags = <<"github", "todo", "commit">>
     /\ DestinedFor(tasks[k], "CLICKUP_TODO_LIST_ID")

\* C6 as stated: a push with K matching commits forwards exactly K task
\* records, one per matching commit in commit order, tagged
\* [github, todo, commit] and destined for the TODO list, whatever the
\* outcome of the external call made for each record.
C6_PushTasksAsStated ==
  (IsPush /\ verified = "true" /\ HandlerEnded) =>
     /\ TaskCommitIds = TodoCommitIds
     /\ PushTasksWellFormed

\* C6 amended: a push forwards one task record per matching commit in
\* commit order, tagged [github, todo, commit] and destined for the TODO
\* list, up to and including the first record whose external call fails;
\* when no call fails these are exactly the K matching commits, and
\* commits without "todo" produce none.
C6_PushTasks ==
  (IsPush /\ verified = "true") =>
     /\ IsPrefix(TaskCommitIds, TodoCommitIds)
     /\ PushTasksWellFormed
     /\ \A k \in 1..(Len(outcomes) - 1) : outcomes[k] # "throw"
     /\ HandlerEnded =>
          IF \E k \in 1..Len(outcomes) : outcomes[k] = "throw"
            THEN outcomes[Len(outcomes)] = "throw"
            ELSE TaskCommitIds = TodoCommitIds

C6_Witness ==
  /\ IsPush /\ pc = "done"
  /\ Len(TodoCommitIds) = 2
  /\ Len(tasks) = 1
  /\ outcomes = <<"throw">>

----------------------------------------------------------------------------
\* Task Client

TokenConfigured ==
  "CLICKUP_API_TOKEN" \in DOMAIN env /\ env["CLICKUP_API_TOKEN"] # ""

NotConfiguredFor(task) == ~TokenConfigured \/ "listId" \notin DOMAIN task

\* C7: when the API token is not configured, or the destination list of
\* the record is unset, createClickUpTask returns without throwing and
\* issues no outbound call, and the enclosing GitHub request is answered
\* 200 with status "success".
C7_TaskClientNoop ==
  (IsGithub /\ tasks # <<>>) =>
     /\ \A k \in 1..Len(tasks) : NotConfiguredFor(tasks[k]) => outcomes[k] = "noop"
     /\ Len(outbound) = Cardinality({k \in 1..Len(outcomes) : outcomes[k] # "noop"})
     /\ (\A k \in 1..Len(tasks) : NotConfiguredFor(tasks[k])) =>
           /\ outbound = <<>>
           /\ pc = "done" =>
                (res.sent /\ res.status = 200 /\ res.body.status = "success")

C7_Witness ==
  /\ IsGithub /\ pc = "done"
  /\ tasks # <<>>
  /\ TokenConfigured /\ "listId" \notin DOMAIN tasks[1]
  /\ outbound = <<>>
  /\ res.status = 200 /\ res.body.status = "success"

----------------------------------------------------------------------------
\* Pull-request handler

IsPullRequest == IsGithub /\ EventType = "pull_request"

PullRequestQualifies ==
  /\ "action" \in DOMAIN req.body
  /\ req.body.action \in {"opened", "reopened"}
  /\ req.body.pull_request.base.ref \in {"main", "master"}

\* C8: a pull_request event produces exactly one task record, destined for
\* the code-reviews list and tagged [github, pull-request, <repo-name>],
\* when its action is opened or reopened and its target branch is main or
\* master, and none for every other action or target branch.
C8_PullRequestTasks ==
  (IsPullRequest /\ verified = "true") =>
     /\ Len(tasks) <= 1
     /\ ~PullRequestQualifies => tasks = <<>>
     /\ (PullRequestQualifies /\ HandlerEnded) =>
           /\ Len(tasks) = 1
           /\ tasks[1].tags = <<"github", "pull-request", req.body.repository.name>>
           /\ DestinedFor(tasks[1], "CLICKUP_CODE_REVIEWS_LIST_ID")

C8_Witness ==
  /\ IsPullRequest /\ pc = "done"
  /\ req.body = [action |-> "reopened", repository |-> [name |-> "beta"],
                 pull_request |-> [number |-> 7, base |-> [ref |-> "master"]]]
  /\ Len(tasks) = 1
  /\ tasks[1].tags = <<"github", "pull-request", "beta">>

----------------------------------------------------------------------------
\* Issues handler

IsIssues == IsGithub /\ EventType = "issues"

IssueQualifies ==
  /\ "action" \in DOMAIN req.body
  /\ req.body.action \in {"opened", "reopened"}
  /\ \E k \in 1..Len(req.body.issue.labels) :
        req.body.issue.labels[k].name \in {LblStack, LblMixedImmortal}

\* C9: an issues event produces exactly one task record, destined for the
\* dev-backlog list and tagged [github, issue, <repo-name>], when its
\* action is opened or reopened and at least one label equals stack or
\* immortal-stack in any case, however many labels match; none otherwise.
C9_IssueTasks ==
  (IsIssues /\ verified = "true") =>
     /\ Len(tasks) <= 1
     /\ ~IssueQualifies => tasks = <<>>
     /\ (IssueQualifies /\ HandlerEnded) =>
           /\ Len(tasks) = 1
           /\ tasks[1].tags = <<"github", "issue", req.body.repository.name>>
           /\ DestinedFor(tasks[1], "CLICKUP_DEV_BACKLOG_LIST_ID")

C9_Witness ==
  /\ IsIssues /\ pc = "done"
  /\ "issue" \in DOMAIN req.body
  /\ req.body.action = "opened"
  /\ req.body.issue.labels = <<[name |-> LblMixedImmortal], [name |-> LblStack]>>
  /\ Len(tasks) = 1
  /\ tasks[1].tags = <<"github", "issue", req.body.repository.name>>

----------------------------------------------------------------------------
\* Placeholder logging step

\* C10 as stated: logEventToMongoDB runs exactly once for every GitHub
\* event that passes signature verification, after the handler finished
\* and before the response is sent, whatever the event type and whether
\* the handler skipped, created tasks or failed.
C10_LogOnceAsStated ==
  (IsGithub /\ verified = "true") =>
     /\ pc \in {"respond", "done"} => mongoLogs = 1
     /\ mongoLogs = 1 => pc \in {"respond", "done"}
     /\ res.sent => mongoLogs = 1

\* C10 amended: logEventToMongoDB runs exactly once for every GitHub event
\* that passes signature verification and whose handler does not fail,
\* after the handler finished and before the response is sent, whatever
\* the event type and whether the handler skipped or created tasks; when
\* the handler fails it does not run.
C10_LogOnce ==
  IsGithub =>
     /\ mongoLogs \in {0, 1}
     /\ verified # "true" => mongoLogs = 0
     /\ (verified = "true" /\ pc \in {"respond", "done"}) =>
           mongoLogs = IF HandlerFailed THEN 0 ELSE 1
     /\ mongoLogs = 1 => pc \in {"respond", "done"}
     /\ pc = "respond" => ~res.sent

C10_Witness ==
  /\ IsGithub /\ pc = "done" /\ verified = "true"
  /\ EventType = "pull_request"
  /\ outcomes = <<"throw">>
  /\ mongoLogs = 0
  /\ res.status = 200

====
